---- MODULE Spec2Model ----
(***************************************************************************)
(* A model of the product processor: the record loader (load_json_files),  *)
(* the image fetcher (download_image, download_product_images) and the CSV *)
(* exporter (generate_csv).                                                *)
(*                                                                         *)
(* A product record is a function from field names to values whose DOMAIN  *)
(* is the set of fields the record has (a Python dict).                    *)
(***************************************************************************)
EXTENDS Integers, Sequences, FiniteSets, TLC

VARIABLES
    products,        \* the record sequence handed to download_product_images
    max_workers,     \* the size of the ThreadPoolExecutor
    dl_pc,           \* position of the thread running download_product_images
    download_tasks,  \* the task tuples built at downloader.py:93-99
    future_to_url,   \* the futures, in submission (dict insertion) order
    cursor,          \* number of futures the collecting loop has consumed
    results,         \* results[product_id][url] = local_path
    folder,          \* the directory load_json_files reads: its entries in
                     \* os.listdir order
    load_pc,         \* position of load_json_files
    entry,           \* number of directory entries the loop has consumed
    all_products,    \* the aggregate list of load_json_files
    opened,          \* the entries load_json_files has opened, in order
    loaded,          \* the value load_json_files returned to its caller
    load_error,      \* the exception load_json_files raised
    csv_pc,          \* position of generate_csv
    csv_fields,      \* the column names generate_csv builds
    csv_rows,        \* the row dictionaries generate_csv builds
    output_file,     \* the file at the output path of generate_csv
    csv_error,       \* the exception generate_csv raised
    config,          \* the configuration process_products is called with
    main_pc,         \* position of process_products
    listing,         \* the category page of the site: the hrefs its links carry
    max_products,    \* the cap scrape_products is called with
    scrape_pc,       \* position of scrape_products
    product_links,   \* the links scrape_products walks
    link_index,      \* number of links the scraping loop has consumed
    scraped,         \* the products list scrape_products builds and returns
    requests         \* the pages get_page has requested, in order

downloadVars == <<products, max_workers, dl_pc, download_tasks, future_to_url,
                  cursor, results>>

loadVars == <<folder, load_pc, entry, all_products, opened, loaded, load_error>>

csvVars == <<csv_pc, csv_fields, csv_rows, output_file, csv_error>>

processVars == <<config, main_pc>>

scrapeVars == <<listing, max_products, scrape_pc, product_links, link_index,
                scraped, requests>>

vars == <<downloadVars, loadVars, csvVars, processVars, scrapeVars>>

(* download_product_images is not running. *)
DownloadIdle ==
    /\ max_workers = 1
    /\ dl_pc = "idle"
    /\ download_tasks = <<>>
    /\ future_to_url = <<>>
    /\ cursor = 0
    /\ results = [x \in {} |-> 0]

(* load_json_files is not running. *)
LoadIdle ==
    /\ folder = [exists |-> FALSE, entries |-> <<>>]
    /\ load_pc = "idle"
    /\ entry = 0
    /\ all_products = <<>>
    /\ opened = <<>>
    /\ loaded = <<>>
    /\ load_error = ""

(* generate_csv is not running. *)
CsvIdle ==
    /\ csv_pc = "idle"
    /\ csv_fields = <<>>
    /\ csv_rows = <<>>
    /\ output_file = [parent |-> FALSE, exists |-> FALSE, header |-> <<>>, rows |-> <<>>]
    /\ csv_error = ""

(* process_products is not running. *)
ProcessIdle ==
    /\ config = [download_images |-> FALSE]
    /\ main_pc = "idle"

(* scrape_products is not running. *)
ScrapeIdle ==
    /\ listing = <<>>
    /\ max_products = 0
    /\ scrape_pc = "idle"
    /\ product_links = <<>>
    /\ link_index = 0
    /\ scraped = <<>>
    /\ requests = <<>>

----------------------------------------------------------------------------
(* Bounds of the model. *)

MaxProducts == 2
MaxTasks == 3
MaxWorkers == 2

(* The empty mapping (an empty dict). *)
EmptyMap == [x \in {} |-> 0]

(* dict.get(key, default) *)
Get(d, key, default) == IF key \in DOMAIN d THEN d[key] ELSE default

(* d[key] = value on a dict *)
Put(d, key, value) == [x \in (DOMAIN d) \cup {key} |-> IF x = key THEN value ELSE d[x]]

----------------------------------------------------------------------------
(* The inputs: URLs and product ids.                                       *)
(*   "h/img"   a URL whose path basename has no extension                  *)
(*   "h/a.jpg" a URL whose path basename has an extension                  *)

Urls == {"h/img", "h/a.jpg"}

ProductIds == {"p1"}

(* os.path.basename(urlparse(url).path) *)
Basename(url) ==
    CASE url = "h/a.jpg" -> "a.jpg"
      [] url = "h/img"   -> "img"
      [] OTHER           -> ""

(* '.' in filename *)
HasDot(filename) == filename = "a.jpg"

(* The file name download_image derives. *)
Filename(url, product_id, index) ==
    LET base == Basename(url)
        filename == IF base = "" \/ ~HasDot(base)
                    THEN "image_" \o product_id \o "_" \o ToString(index) \o ".jpg"
                    ELSE base
    IN  IF product_id # "" THEN product_id \o "_" \o filename ELSE filename

(* os.path.join(output_dir, filename) *)
OutputPath(url, product_id, index) == "images/" \o Filename(url, product_id, index)

(* download_image: the local path it returns; fetched tells whether the    *)
(* request and the write both succeeded.                                   *)
download_image(url, product_id, index, fetched) ==
    IF url = "" THEN ""
    ELSE IF fetched THEN OutputPath(url, product_id, index)
    ELSE ""

----------------------------------------------------------------------------
(* download_product_images *)

(* product.get('product_id', 'unknown') *)
ProductKey(product) == Get(product, "product_id", "unknown")

(* The tasks of one record: (url, product_id, i) for i, url in enumerate. *)
TasksOf(product) ==
    LET image_urls == Get(product, "image_urls", <<>>)
    IN  [n \in 1..Len(image_urls) |->
            [url |-> image_urls[n], product_id |-> ProductKey(product), i |-> n - 1]]

RECURSIVE BuildTasks(_)
BuildTasks(ps) ==
    IF ps = <<>> THEN <<>> ELSE TasksOf(Head(ps)) \o BuildTasks(Tail(ps))

(* A variant of Record that keeps the first path recorded for a URL. *)
RecordKeepFirst(res, task, local_path) ==
    IF local_path # "" /\ task.url \notin DOMAIN Get(res, task.product_id, EmptyMap)
    THEN Put(res, task.product_id,
             Put(Get(res, task.product_id, EmptyMap), task.url, local_path))
    ELSE res

(* One pass of the collecting loop body: record a non-empty local path. *)
Record(res, task, local_path) ==
    IF local_path # ""
    THEN Put(res, task.product_id,
             Put(Get(res, task.product_id, EmptyMap), task.url, local_path))
    ELSE res

(* A variant of UpdateProduct that falls back to the URL itself. *)
UpdateProductDefaultUrl(product, res) ==
    IF Get(product, "product_id", "unknown") \in DOMAIN res
    THEN LET image_urls == Get(product, "image_urls", <<>>)
         IN  Put(product, "local_image_paths",
                 [n \in 1..Len(image_urls) |->
                     Get(res[Get(product, "product_id", "unknown")],
                         image_urls[n], image_urls[n])])
    ELSE product

(* The update of one record after all futures are collected. *)
UpdateProduct(product, res) ==
    IF ProductKey(product) \in DOMAIN res
    THEN LET image_urls == Get(product, "image_urls", <<>>)
         IN  Put(product, "local_image_paths",
                 [n \in 1..Len(image_urls) |->
                     Get(res[ProductKey(product)], image_urls[n], "")])
    ELSE product

(* The call: `if not products: return products`, else build the tasks. *)
Call ==
    /\ dl_pc = "call"
    /\ IF products = <<>>
       THEN /\ dl_pc' = "returned"
            /\ UNCHANGED download_tasks
       ELSE /\ dl_pc' = "submit"
            /\ download_tasks' = BuildTasks(products)
    /\ UNCHANGED <<products, max_workers, future_to_url, cursor, results>>
    /\ UNCHANGED <<loadVars, csvVars, processVars, scrapeVars>>

(* ThreadPoolExecutor(max_workers=max_workers), which raises ValueError for *)
(* a size that is not positive, then the dict comprehension:               *)
(* executor.submit of every task, in task order.                           *)
Submit ==
    /\ dl_pc = "submit"
    /\ IF max_workers <= 0
       THEN /\ dl_pc' = "raised"
            /\ UNCHANGED future_to_url
       ELSE /\ future_to_url' = [k \in 1..Len(download_tasks) |->
                   [task |-> download_tasks[k], state |-> "pending", local_path |-> ""]]
            /\ dl_pc' = "collect"
    /\ UNCHANGED <<products, max_workers, download_tasks, cursor, results>>
    /\ UNCHANGED <<loadVars, csvVars, processVars, scrapeVars>>

Running == {k \in 1..Len(future_to_url) : future_to_url[k].state = "running"}

Pending == {k \in 1..Len(future_to_url) : future_to_url[k].state = "pending"}

(* A variant of WorkerFree for a pool that starts a thread per work item. *)
WorkerAlwaysFree == TRUE

(* A worker thread is free to take a work item. *)
WorkerFree == Cardinality(Running) < max_workers

(* A pool thread takes the oldest queued work item. *)
StartDownload ==
    /\ Pending # {}
    /\ WorkerFree
    /\ LET k == CHOOSE j \in Pending : \A m \in Pending : j <= m
       IN  future_to_url' = [future_to_url EXCEPT ![k].state = "running"]
    /\ UNCHANGED <<products, max_workers, dl_pc, download_tasks, cursor, results>>
    /\ UNCHANGED <<loadVars, csvVars, processVars, scrapeVars>>

(* A variant of FinishDownload in which the worker thread itself stores its *)
(* local path in the shared results mapping.                               *)
FinishDownloadWritesResults ==
    /\ \E k \in Running, fetched \in BOOLEAN :
          LET local_path == download_image(future_to_url[k].task.url,
                                           future_to_url[k].task.product_id,
                                           future_to_url[k].task.i, fetched)
          IN  /\ future_to_url' = [future_to_url EXCEPT
                     ![k].state = "done", ![k].local_path = local_path]
                  /\ results' = Record(results, future_to_url[k].task, local_path)
    /\ UNCHANGED <<products, max_workers, dl_pc, download_tasks, cursor>>
    /\ UNCHANGED <<loadVars, csvVars, processVars, scrapeVars>>

(* A running download_image returns: the future holds its result tuple. *)
FinishDownload ==
    /\ \E k \in Running, fetched \in BOOLEAN :
          /\ future_to_url' = [future_to_url EXCEPT
                 ![k].state = "done",
                 ![k].local_path = download_image(future_to_url[k].task.url,
                                                  future_to_url[k].task.product_id,
                                                  future_to_url[k].task.i, fetched)]
    /\ UNCHANGED <<products, max_workers, dl_pc, download_tasks, cursor, results>>
    /\ UNCHANGED <<loadVars, csvVars, processVars, scrapeVars>>

(* A variant of NextFuture that takes a future that is done already, as a  *)
(* loop over as_completed(future_to_url) does.                             *)
NextFutureAsCompleted ==
    LET ready == {k \in 1..Len(future_to_url) : future_to_url[k].state = "done"}
    IN  IF ready = {} THEN 0 ELSE CHOOSE k \in ready : \A j \in ready : k <= j

(* The future the collecting loop waits for next: `for future in           *)
(* future_to_url` walks the dict in insertion order.                       *)
NextFuture == cursor + 1

(* A variant of Collect in which a download that yields no local path ends *)
(* the batch with an error.                                                *)
CollectFailFast ==
    /\ dl_pc = "collect"
    /\ IF cursor < Len(future_to_url)
       THEN /\ future_to_url[cursor + 1].state = "done"
            /\ IF future_to_url[cursor + 1].local_path = ""
               THEN /\ dl_pc' = "raised"
                    /\ UNCHANGED results
               ELSE /\ results' = Record(results, future_to_url[cursor + 1].task,
                                         future_to_url[cursor + 1].local_path)
                    /\ UNCHANGED dl_pc
            /\ cursor' = cursor + 1
            /\ future_to_url' = [future_to_url EXCEPT ![cursor + 1].state = "collected"]
       ELSE /\ \A k \in 1..Len(future_to_url) :
                  future_to_url[k].state \in {"done", "collected"}
            /\ dl_pc' = "update"
            /\ UNCHANGED <<results, cursor, future_to_url>>
    /\ UNCHANGED <<products, max_workers, download_tasks>>
    /\ UNCHANGED <<loadVars, csvVars, processVars, scrapeVars>>

(* One pass of `for future in future_to_url`: future.result() blocks until *)
(* that future is done. Leaving the with block joins the pool.             *)
Collect ==
    /\ dl_pc = "collect"
    /\ IF cursor < Len(future_to_url)
       THEN /\ NextFuture \in 1..Len(future_to_url)
            /\ future_to_url[NextFuture].state = "done"
            /\ results' = Record(results, future_to_url[NextFuture].task,
                                 future_to_url[NextFuture].local_path)
            /\ cursor' = cursor + 1
            /\ future_to_url' = [future_to_url EXCEPT ![NextFuture].state = "collected"]
            /\ UNCHANGED dl_pc
       ELSE /\ \A k \in 1..Len(future_to_url) :
                  future_to_url[k].state \in {"done", "collected"}
            /\ dl_pc' = "update"
            /\ UNCHANGED <<results, cursor, future_to_url>>
    /\ UNCHANGED <<products, max_workers, download_tasks>>
    /\ UNCHANGED <<loadVars, csvVars, processVars, scrapeVars>>

(* The loop that gives the records their local_image_paths, and the return. *)
Update ==
    /\ dl_pc = "update"
    /\ products' = [n \in 1..Len(products) |-> UpdateProduct(products[n], results)]
    /\ dl_pc' = "returned"
    /\ UNCHANGED <<max_workers, download_tasks, future_to_url, cursor, results>>
    /\ UNCHANGED <<loadVars, csvVars, processVars, scrapeVars>>

----------------------------------------------------------------------------
(* The record sequences the fetcher is run on. *)

UrlSeqs(budget) == UNION {[1..n -> Urls] : n \in 0..budget}

(* The records with at most budget image URLs; a record may lack either field. *)
InputRecords(budget) ==
    {EmptyMap} \cup
    {[image_urls |-> us] : us \in UrlSeqs(budget)} \cup
    {[product_id |-> id, image_urls |-> us] : id \in ProductIds, us \in UrlSeqs(budget)}

NImages(product) == Len(Get(product, "image_urls", <<>>))

RECURSIVE ImagesOf(_)
ImagesOf(ps) == IF ps = <<>> THEN 0 ELSE NImages(Head(ps)) + ImagesOf(Tail(ps))

(* The record sequences of at most n records and at most budget image URLs. *)
RECURSIVE BatchesWithin(_, _)
BatchesWithin(n, budget) ==
    IF n = 0 THEN {<<>>}
    ELSE {<<>>} \cup
         UNION {{<<r>> \o rest : rest \in BatchesWithin(n - 1, budget - NImages(r))} :
                   r \in InputRecords(budget)}

Batches == BatchesWithin(MaxProducts, MaxTasks)

InitDownload ==
    /\ LoadIdle
    /\ CsvIdle
    /\ ProcessIdle
    /\ ScrapeIdle
    /\ products \in Batches
    /\ max_workers \in {1, MaxWorkers}
    /\ dl_pc = "call"
    /\ download_tasks = <<>>
    /\ future_to_url = <<>>
    /\ cursor = 0
    /\ results = EmptyMap

NextDownload ==
    \/ Call
    \/ Submit
    \/ StartDownload
    \/ FinishDownload
    \/ Collect
    \/ Update

SpecDownload == InitDownload /\ [][NextDownload]_vars

----------------------------------------------------------------------------
(* load_json_files *)

(* The records the JSON files hold. *)
FileRecords == {[product_id |-> "1", name |-> "A"], [product_id |-> "2", name |-> "B"]}

MaxFiles == 3
MaxArray == 2

(* What json.load gives for a file:                                        *)
(*   "list"    a JSON array, items its elements                            *)
(*   "dict"    a single JSON object, items the one record                  *)
(*   "other"   another top-level JSON value (a number, a string, null)     *)
(*   "invalid" no JSON at all: json.load raises JSONDecodeError            *)
JsonFiles ==
    {[json |-> TRUE, kind |-> "list", items |-> rs] :
        rs \in UNION {[1..n -> FileRecords] : n \in 0..MaxArray}} \cup
    {[json |-> TRUE, kind |-> "dict", items |-> <<r>>] : r \in FileRecords} \cup
    {[json |-> TRUE, kind |-> "other", items |-> <<>>],
     [json |-> TRUE, kind |-> "invalid", items |-> <<>>]}

(* A directory entry whose name does not end with ".json"; it is never opened. *)
OtherFiles == {[json |-> FALSE, kind |-> "invalid", items |-> <<>>]}

Folders ==
    {[exists |-> FALSE, entries |-> <<>>]} \cup
    {[exists |-> TRUE, entries |-> es] :
        es \in UNION {[1..n -> JsonFiles \cup OtherFiles] : n \in 0..MaxFiles}}

(* A variant of Aggregate that puts the records of a file in front. *)
AggregateInFront(products_so_far, data) ==
    IF data.kind = "list" THEN data.items \o products_so_far
    ELSE IF data.kind = "dict" THEN <<data.items[1]>> \o products_so_far
    ELSE products_so_far

(* all_products after the parsed value of one file: extend by a list,      *)
(* append a dict, leave alone for any other type.                          *)
Aggregate(products_so_far, data) ==
    IF data.kind = "list" THEN products_so_far \o data.items
    ELSE IF data.kind = "dict" THEN Append(products_so_far, data.items[1])
    ELSE products_so_far

(* The check that the folder exists. *)
LoadEnter ==
    /\ load_pc = "call"
    /\ IF folder.exists
       THEN /\ load_pc' = "loop"
            /\ UNCHANGED load_error
       ELSE /\ load_pc' = "raised"
            /\ load_error' = "FileNotFoundError"
    /\ UNCHANGED <<folder, entry, all_products, opened, loaded>>
    /\ UNCHANGED <<downloadVars, csvVars, processVars, scrapeVars>>

(* A variant of LoadEntry that logs a file that does not parse and goes on. *)
LoadEntrySkipInvalid ==
    /\ load_pc = "loop"
    /\ entry < Len(folder.entries)
    /\ entry' = entry + 1
    /\ IF folder.entries[entry + 1].json
       THEN /\ opened' = Append(opened, entry + 1)
            /\ all_products' = Aggregate(all_products, folder.entries[entry + 1])
       ELSE UNCHANGED <<opened, all_products>>
    /\ UNCHANGED <<folder, load_pc, loaded, load_error>>
    /\ UNCHANGED <<downloadVars, csvVars, processVars, scrapeVars>>

(* One pass of `for filename in os.listdir(folder_path)`. *)
LoadEntry ==
    /\ load_pc = "loop"
    /\ entry < Len(folder.entries)
    /\ entry' = entry + 1
    /\ IF folder.entries[entry + 1].json
       THEN /\ opened' = Append(opened, entry + 1)
            /\ IF folder.entries[entry + 1].kind = "invalid"
               THEN /\ load_pc' = "raised"
                    /\ load_error' = "JSONDecodeError"
                    /\ UNCHANGED all_products
               ELSE /\ all_products' = Aggregate(all_products, folder.entries[entry + 1])
                    /\ UNCHANGED <<load_pc, load_error>>
       ELSE UNCHANGED <<opened, all_products, load_pc, load_error>>
    /\ UNCHANGED <<folder, loaded>>
    /\ UNCHANGED <<downloadVars, csvVars, processVars, scrapeVars>>

(* `return all_products` after the last entry. *)
LoadReturn ==
    /\ load_pc = "loop"
    /\ entry = Len(folder.entries)
    /\ loaded' = all_products
    /\ load_pc' = "returned"
    /\ UNCHANGED <<folder, entry, all_products, opened, load_error>>
    /\ UNCHANGED <<downloadVars, csvVars, processVars, scrapeVars>>

InitLoad ==
    /\ DownloadIdle
    /\ CsvIdle
    /\ ProcessIdle
    /\ ScrapeIdle
    /\ products = <<>>
    /\ folder \in Folders
    /\ load_pc = "call"
    /\ entry = 0
    /\ all_products = <<>>
    /\ opened = <<>>
    /\ loaded = <<>>
    /\ load_error = ""

NextLoad ==
    \/ LoadEnter
    \/ LoadEntry
    \/ LoadReturn

SpecLoad == InitLoad /\ [][NextLoad]_vars

----------------------------------------------------------------------------
(* generate_csv *)

MaxImages == 2
MaxRows == 2

StaticFields ==
    <<"brand", "name", "description", "type", "category", "weight_options",
      "THC_percent", "available_for_pickup", "available_for_delivery",
      "aggregate_rating", "review_count">>

weights_keys == <<"gram", "eighth_ounce", "quarter_ounce", "half_ounce", "ounce">>

RECURSIVE PriceFields(_)
PriceFields(ws) ==
    IF ws = <<>> THEN <<>>
    ELSE <<"price_" \o Head(ws), "discounted_price_" \o Head(ws)>> \o PriceFields(Tail(ws))

ImageField(i) == "image_" \o ToString(i)

(* A variant of MaxImageCount that looks at the first record only. *)
MaxImageCountFirst(ps) ==
    IF ps = <<>> THEN 0 ELSE Len(Get(Head(ps), "image_urls", <<>>))

(* max(len(p.get("image_urls", []))) over the records, 0 at least. *)
RECURSIVE MaxImageCount(_)
MaxImageCount(ps) ==
    IF ps = <<>> THEN 0
    ELSE LET here == Len(Get(Head(ps), "image_urls", <<>>))
             rest == MaxImageCount(Tail(ps))
         IN  IF here > rest THEN here ELSE rest

(* The header: the fixed fields, the price pairs, image_1..image_N, then   *)
(* tags and product_link.                                                  *)
CsvFields(max_images) ==
    StaticFields \o PriceFields(weights_keys)
       \o [i \in 1..max_images |-> ImageField(i)] \o <<"tags", "product_link">>

(* str.title() and str.replace(' ', '-').lower() on the strings of the inputs. *)
Title(w) ==
    CASE w = "gram" -> "Gram"
      [] w = "eighth ounce" -> "Eighth Ounce"
      [] OTHER -> w

Slug(t) ==
    CASE t = "Blue Dream" -> "blue-dream"
      [] t = "OG Kush" -> "og-kush"
      [] OTHER -> t

(* sep.join(parts) *)
RECURSIVE Join(_, _)
Join(sep, parts) ==
    IF parts = <<>> THEN ""
    ELSE IF Len(parts) = 1 THEN parts[1]
    ELSE parts[1] \o sep \o Join(sep, Tail(parts))

(* The text csv.DictWriter writes for a value of a pass-through field. *)
Text(p, key) == Get(p, key, "")

(* " - ".join(w.title() for w in available_weights) *)
WeightOptions(p) ==
    LET ws == Get(p, "available_weights", <<>>)
    IN  Join(" - ", [n \in 1..Len(ws) |-> Title(ws[n])])

(* The first potency of inventory_potencies, with a percent sign. *)
ThcPercent(p) ==
    IF Get(p, "inventory_potencies", <<>>) # <<>>
    THEN (IF "thc_potency" \in DOMAIN p.inventory_potencies[1]
          THEN ToString(p.inventory_potencies[1].thc_potency)
          ELSE "") \o "%"
    ELSE ""

(* f"${value}" if the price is present and truthy, else "". *)
Price(p, key) ==
    IF key \in DOMAIN p /\ p[key] # 0 THEN "$" \o ToString(p[key]) ELSE ""

(* The discount_label of every special of brand_special_prices that has one. *)
Tags(p) ==
    LET specials == Get(p, "brand_special_prices", <<>>)
        labelled == SelectSeq(specials, LAMBDA sp : Get(sp, "discount_label", "") # "")
    IN  Join(", ", [n \in 1..Len(labelled) |-> labelled[n].discount_label])

ProductLink(p) ==
    "/shop/menu/products/" \o Get(p, "product_id", "None") \o "/"
       \o Slug(Get(p, "brand", "")) \o "-" \o Slug(Get(p, "name", ""))

PriceFieldSet == {PriceFields(weights_keys)[n] : n \in 1..Len(PriceFields(weights_keys))}

(* row_prices: both prices of each weight unit. *)
RowPrices(p) == [key \in PriceFieldSet |-> Price(p, key)]

(* image_cols: image_1..image_N, blank past the record's own images. *)
ImageCols(p, max_images) ==
    LET image_urls == Get(p, "image_urls", <<>>)
        col(i) == IF i <= Len(image_urls) THEN image_urls[i] ELSE ""
    IN  [key \in {ImageField(i) : i \in 1..max_images} |->
            col(CHOOSE i \in 1..max_images : key = ImageField(i))]

(* The value None a JSON null is loaded as, kept apart from every string   *)
(* of the inputs.                                                          *)
None == "<None>"

(* The row of the record cannot be computed: None has no replace().        *)
RowRaises(p) == Get(p, "brand", "") = None \/ Get(p, "name", "") = None

(* The row dictionary of one record. *)
Row(p, max_images) ==
    [key \in {StaticFields[n] : n \in 1..Len(StaticFields)} |->
        CASE key = "weight_options" -> WeightOptions(p)
          [] key = "THC_percent" -> ThcPercent(p)
          [] OTHER -> Text(p, key)]
    @@ RowPrices(p)
    @@ ImageCols(p, max_images)
    @@ ("tags" :> Tags(p))
    @@ ("product_link" :> ProductLink(p))

(* A variant of CsvCall that lets an empty sequence through. *)
CsvCallUnchecked ==
    /\ csv_pc = "call"
    /\ csv_pc' = "build"
    /\ UNCHANGED <<csv_fields, csv_rows, output_file, csv_error>>
    /\ UNCHANGED <<downloadVars, loadVars, processVars, scrapeVars>>

(* `if not products: raise ValueError`. *)
CsvCall ==
    /\ csv_pc = "call"
    /\ IF products = <<>>
       THEN /\ csv_pc' = "raised"
            /\ csv_error' = "ValueError"
       ELSE /\ csv_pc' = "build"
            /\ UNCHANGED csv_error
    /\ UNCHANGED <<csv_fields, csv_rows, output_file>>
    /\ UNCHANGED <<downloadVars, loadVars, processVars, scrapeVars>>

(* A variant of CsvBuild that builds the rows from the last record to the  *)
(* first.                                                                  *)
CsvBuildReversed ==
    /\ csv_pc = "build"
    /\ IF \E n \in 1..Len(products) : RowRaises(products[n])
       THEN /\ csv_pc' = "raised"
            /\ csv_error' = "AttributeError"
            /\ UNCHANGED <<csv_fields, csv_rows>>
       ELSE /\ LET max_images == MaxImageCount(products)
               IN  /\ csv_fields' = CsvFields(max_images)
                   /\ csv_rows' = [n \in 1..Len(products) |->
                                      Row(products[Len(products) + 1 - n], max_images)]
            /\ csv_pc' = "write"
            /\ UNCHANGED csv_error
    /\ UNCHANGED output_file
    /\ UNCHANGED <<downloadVars, loadVars, processVars, scrapeVars>>

(* The columns and one row per record, in input order; an exception of a   *)
(* row is logged and raised again before the file is opened.               *)
CsvBuild ==
    /\ csv_pc = "build"
    /\ IF \E n \in 1..Len(products) : RowRaises(products[n])
       THEN /\ csv_pc' = "raised"
            /\ csv_error' = "AttributeError"
            /\ UNCHANGED <<csv_fields, csv_rows>>
       ELSE /\ LET max_images == MaxImageCount(products)
               IN  /\ csv_fields' = CsvFields(max_images)
                   /\ csv_rows' = [n \in 1..Len(products) |-> Row(products[n], max_images)]
            /\ csv_pc' = "write"
            /\ UNCHANGED csv_error
    /\ UNCHANGED output_file
    /\ UNCHANGED <<downloadVars, loadVars, processVars, scrapeVars>>

(* open(output_file, "w"), writeheader, writerows; the open fails when the *)
(* parent directory is missing.                                            *)
CsvWrite ==
    /\ csv_pc = "write"
    /\ IF output_file.parent
       THEN /\ output_file' = [parent |-> TRUE, exists |-> TRUE,
                               header |-> csv_fields, rows |-> csv_rows]
            /\ csv_pc' = "returned"
            /\ UNCHANGED csv_error
       ELSE /\ csv_pc' = "raised"
            /\ csv_error' = "FileNotFoundError"
            /\ UNCHANGED output_file
    /\ UNCHANGED <<csv_fields, csv_rows>>
    /\ UNCHANGED <<downloadVars, loadVars, processVars, scrapeVars>>

(* The records generate_csv is run on. *)
Optional(key, values) == {EmptyMap} \cup {key :> v : v \in values}

ImageRecords ==
    {EmptyMap} \cup
    {[image_urls |-> us] : us \in UNION {[1..n -> Urls] : n \in 0..MaxImages}}

NamedRecords ==
    {a @@ b @@ c : a \in Optional("product_id", ProductIds),
                   b \in Optional("brand", {"Blue Dream"}),
                   c \in Optional("name", {"OG Kush"})}

PotencyRecords ==
    {[inventory_potencies |-> ps] :
        ps \in {<<>>, <<[thc_potency |-> 18]>>, <<EmptyMap>>,
                <<[thc_potency |-> 18], [thc_potency |-> 25]>>}}

PricedRecords ==
    {a @@ b : a \in Optional("price_gram", {0, 5}),
              b \in Optional("discounted_price_ounce", {4})}

TaggedRecords ==
    {[brand_special_prices |-> sps] :
        sps \in {<<>>, <<[discount_label |-> "10% off"]>>,
                 <<EmptyMap, [discount_label |-> "10% off"], [discount_label |-> "BOGO"]>>}}
    \cup {[available_weights |-> ws] : ws \in {<<>>, <<"gram">>, <<"gram", "eighth ounce">>}}

CsvRecords == ImageRecords \cup NamedRecords \cup PotencyRecords \cup PricedRecords
                 \cup TaggedRecords

(* The files that may be at the output path before the call. *)
OutputFiles ==
    {[parent |-> FALSE, exists |-> FALSE, header |-> <<>>, rows |-> <<>>],
     [parent |-> TRUE, exists |-> FALSE, header |-> <<>>, rows |-> <<>>],
     [parent |-> TRUE, exists |-> TRUE, header |-> <<"old">>, rows |-> <<>>]}

InitCsv ==
    /\ DownloadIdle
    /\ LoadIdle
    /\ ProcessIdle
    /\ ScrapeIdle
    /\ products \in UNION {[1..n -> CsvRecords] : n \in 0..MaxRows}
    /\ csv_pc = "call"
    /\ csv_fields = <<>>
    /\ csv_rows = <<>>
    /\ output_file \in OutputFiles
    /\ csv_error = ""

NextCsv ==
    \/ CsvCall
    \/ CsvBuild
    \/ CsvWrite

SpecCsv == InitCsv /\ [][NextCsv]_vars

----------------------------------------------------------------------------
(* process_products *)

(* image_mapping of one record: the local path of every URL that has one,  *)
(* the last index winning.                                                 *)
ImageMapping(product) ==
    LET image_urls == Get(product, "image_urls", <<>>)
        paths == product.local_image_paths
        with == {i \in 1..Len(image_urls) : i <= Len(paths) /\ paths[i] # ""}
    IN  [url \in {image_urls[i] : i \in with} |->
            paths[CHOOSE i \in with :
                     /\ image_urls[i] = url
                     /\ \A j \in with : image_urls[j] = url => j <= i]]

(* A variant of ReplaceImageUrls that takes local_image_paths as the new   *)
(* image_urls, empty entries included.                                     *)
ReplaceImageUrlsByPaths(product) ==
    IF "local_image_paths" \in DOMAIN product /\ "image_urls" \in DOMAIN product
    THEN Put(product, "image_urls", product.local_image_paths)
    ELSE product

(* The body of `for product in products`: the image URLs that have a local *)
(* path in image_mapping are replaced by it.                               *)
ReplaceImageUrls(product) ==
    IF "local_image_paths" \in DOMAIN product /\ "image_urls" \in DOMAIN product
    THEN Put(product, "image_urls",
             [i \in 1..Len(product.image_urls) |->
                 Get(ImageMapping(product), product.image_urls[i],
                     product.image_urls[i])])
    ELSE product

(* A variant of ProcessLoaded that starts generate_csv together with the   *)
(* download instead of after it.                                           *)
ProcessLoadedEager ==
    /\ main_pc = "load"
    /\ load_pc \in {"returned", "raised"}
    /\ IF load_pc = "raised"
       THEN /\ main_pc' = "raised"
            /\ UNCHANGED <<products, dl_pc, csv_pc>>
       ELSE /\ products' = loaded
            /\ csv_pc' = "call"
            /\ IF config.download_images
               THEN /\ dl_pc' = "call"
                    /\ main_pc' = "download"
               ELSE /\ main_pc' = "csv"
                    /\ UNCHANGED dl_pc
    /\ UNCHANGED <<max_workers, download_tasks, future_to_url, cursor, results>>
    /\ UNCHANGED <<csv_fields, csv_rows, output_file, csv_error>>
    /\ UNCHANGED <<loadVars, config, scrapeVars>>

(* load_json_files has ended: its exception ends process_products, its     *)
(* list goes to download_product_images or straight to generate_csv.       *)
ProcessLoaded ==
    /\ main_pc = "load"
    /\ load_pc \in {"returned", "raised"}
    /\ IF load_pc = "raised"
       THEN /\ main_pc' = "raised"
            /\ UNCHANGED <<products, dl_pc, csv_pc>>
       ELSE /\ products' = loaded
            /\ IF config.download_images
               THEN /\ dl_pc' = "call"
                    /\ main_pc' = "download"
                    /\ UNCHANGED csv_pc
               ELSE /\ csv_pc' = "call"
                    /\ main_pc' = "csv"
                    /\ UNCHANGED dl_pc
    /\ UNCHANGED <<max_workers, download_tasks, future_to_url, cursor, results>>
    /\ UNCHANGED <<csv_fields, csv_rows, output_file, csv_error>>
    /\ UNCHANGED <<loadVars, config, scrapeVars>>

(* download_product_images has ended: the image URLs are replaced and      *)
(* generate_csv is called.                                                 *)
ProcessEnriched ==
    /\ main_pc = "download"
    /\ dl_pc \in {"returned", "raised"}
    /\ IF dl_pc = "raised"
       THEN /\ main_pc' = "raised"
            /\ UNCHANGED <<products, csv_pc>>
       ELSE /\ products' = [n \in 1..Len(products) |-> ReplaceImageUrls(products[n])]
            /\ csv_pc' = "call"
            /\ main_pc' = "csv"
    /\ UNCHANGED <<max_workers, dl_pc, download_tasks, future_to_url, cursor, results>>
    /\ UNCHANGED <<csv_fields, csv_rows, output_file, csv_error>>
    /\ UNCHANGED <<loadVars, config, scrapeVars>>

(* generate_csv has ended: process_products returns or raises its exception. *)
ProcessReturn ==
    /\ main_pc = "csv"
    /\ csv_pc \in {"returned", "raised"}
    /\ main_pc' = IF csv_pc = "raised" THEN "raised" ELSE "returned"
    /\ UNCHANGED <<downloadVars, loadVars, csvVars, config, scrapeVars>>

(* The files of the input directory. *)
ProcessFiles ==
    {[json |-> TRUE, kind |-> "list",
      items |-> <<[image_urls |-> <<"h/a.jpg", "h/a.jpg">>],
                  [product_id |-> "p1", brand |-> "Blue Dream",
                   image_urls |-> <<"h/img">>]>>],
     [json |-> TRUE, kind |-> "list", items |-> <<>>],
     [json |-> TRUE, kind |-> "dict",
      items |-> <<[product_id |-> "p1", image_urls |-> <<"h/img", "h/a.jpg">>]>>],
     [json |-> TRUE, kind |-> "dict", items |-> <<[image_urls |-> <<"h/img">>]>>],
     [json |-> TRUE, kind |-> "dict", items |-> <<[name |-> "OG Kush"]>>],
     [json |-> TRUE, kind |-> "dict", items |-> <<[brand |-> None]>>],
     [json |-> TRUE, kind |-> "invalid", items |-> <<>>]}

MaxInputFiles == 2

RECURSIVE ImagesIn(_)
ImagesIn(files) ==
    IF files = <<>> THEN 0
    ELSE (IF Head(files).kind = "invalid" THEN 0
          ELSE ImagesOf(Head(files).items)) + ImagesIn(Tail(files))

(* The input directories: at most MaxTasks image URLs over all the files. *)
ProcessFolders ==
    {[exists |-> TRUE, entries |-> es] :
        es \in {fs \in UNION {[1..n -> ProcessFiles] : n \in 0..MaxInputFiles} :
                   ImagesIn(fs) <= MaxTasks}}

InitProcess ==
    /\ ScrapeIdle
    /\ config \in [download_images : BOOLEAN]
    /\ main_pc = "load"
    /\ products = <<>>
    /\ max_workers \in {0, 1, MaxWorkers}
    /\ dl_pc = "idle"
    /\ download_tasks = <<>>
    /\ future_to_url = <<>>
    /\ cursor = 0
    /\ results = EmptyMap
    /\ folder \in ProcessFolders
    /\ load_pc = "call"
    /\ entry = 0
    /\ all_products = <<>>
    /\ opened = <<>>
    /\ loaded = <<>>
    /\ load_error = ""
    /\ csv_pc = "idle"
    /\ csv_fields = <<>>
    /\ csv_rows = <<>>
    /\ output_file \in {f \in OutputFiles : f.parent}
    /\ csv_error = ""

NextProcess ==
    \/ LoadEnter
    \/ LoadEntry
    \/ LoadReturn
    \/ ProcessLoaded
    \/ Call
    \/ Submit
    \/ StartDownload
    \/ FinishDownload
    \/ Collect
    \/ Update
    \/ ProcessEnriched
    \/ CsvCall
    \/ CsvBuild
    \/ CsvWrite
    \/ ProcessReturn

SpecProcess == InitProcess /\ [][NextProcess]_vars

----------------------------------------------------------------------------
(* ProductScraper.scrape_products *)

MaxLinks == 3

(* The href values of the elements the link selector matches; an element   *)
(* may have no href.                                                       *)
Hrefs == {"", "/p/1", "/p/2"}

category_url == "site/c"

(* urljoin(self.base_url, href) *)
UrlJoin(href) == "site" \o href

(* extract_product_links: the absolute URL of every href that is not empty. *)
extract_product_links(soup) ==
    LET with_href == SelectSeq(soup, LAMBDA href : href # "")
    IN  [i \in 1..Len(with_href) |-> UrlJoin(with_href[i])]

(* product_links[:max_products] *)
Truncate(links, n) ==
    IF n >= 0
    THEN SubSeq(links, 1, IF n < Len(links) THEN n ELSE Len(links))
    ELSE SubSeq(links, 1, IF Len(links) + n > 0 THEN Len(links) + n ELSE 0)

(* What extract_product_data can give for a product page: nothing, a name, *)
(* or fields among which a product_url of the page's own.                  *)
PageData == {EmptyMap, [name |-> "A"], [name |-> "B", product_url |-> "own"]}

(* A variant of ScrapeCategory that asks for the category page again when  *)
(* the request failed.                                                     *)
ScrapeCategoryRetry ==
    /\ scrape_pc = "call"
    /\ Len(requests) < 2
    /\ \E ok \in BOOLEAN :
          /\ requests' = Append(requests, [url |-> category_url, ok |-> ok, data |-> EmptyMap])
          /\ IF ok
             THEN /\ product_links' = Truncate(extract_product_links(listing), max_products)
                  /\ scrape_pc' = "loop"
             ELSE UNCHANGED <<product_links, scrape_pc>>
    /\ UNCHANGED <<listing, max_products, link_index, scraped>>
    /\ UNCHANGED <<downloadVars, loadVars, csvVars, processVars>>

(* get_page(category_url); without the page the empty list is returned,    *)
(* with it the links are extracted and truncated.                          *)
ScrapeCategory ==
    /\ scrape_pc = "call"
    /\ \E ok \in BOOLEAN :
          /\ requests' = Append(requests, [url |-> category_url, ok |-> ok, data |-> EmptyMap])
          /\ IF ok
             THEN /\ product_links' = Truncate(extract_product_links(listing), max_products)
                  /\ scrape_pc' = "loop"
             ELSE /\ scrape_pc' = "returned"
                  /\ UNCHANGED product_links
    /\ UNCHANGED <<listing, max_products, link_index, scraped>>
    /\ UNCHANGED <<downloadVars, loadVars, csvVars, processVars>>

(* A variant of ScrapeProduct that gives up at the first product page that *)
(* cannot be fetched.                                                      *)
ScrapeProductAbort ==
    /\ scrape_pc = "loop"
    /\ link_index < Len(product_links)
    /\ LET link == product_links[link_index + 1]
       IN  \E ok \in BOOLEAN, product_data \in PageData :
              /\ ~ok => product_data = EmptyMap
              /\ requests' = Append(requests, [url |-> link, ok |-> ok, data |-> product_data])
              /\ scraped' = IF ok /\ product_data # EmptyMap
                            THEN Append(scraped, Put(product_data, "product_url", link))
                            ELSE scraped
              /\ scrape_pc' = IF ok THEN "loop" ELSE "returned"
    /\ link_index' = link_index + 1
    /\ UNCHANGED <<listing, max_products, product_links>>
    /\ UNCHANGED <<downloadVars, loadVars, csvVars, processVars>>

(* One pass of `for i, link in enumerate(product_links)`: the page is      *)
(* requested; a page that cannot be fetched or yields no data is skipped.  *)
ScrapeProduct ==
    /\ scrape_pc = "loop"
    /\ link_index < Len(product_links)
    /\ LET link == product_links[link_index + 1]
       IN  \E ok \in BOOLEAN, product_data \in PageData :
              /\ ~ok => product_data = EmptyMap
              /\ requests' = Append(requests, [url |-> link, ok |-> ok, data |-> product_data])
              /\ scraped' = IF ok /\ product_data # EmptyMap
                            THEN Append(scraped, Put(product_data, "product_url", link))
                            ELSE scraped
    /\ link_index' = link_index + 1
    /\ UNCHANGED <<listing, max_products, scrape_pc, product_links>>
    /\ UNCHANGED <<downloadVars, loadVars, csvVars, processVars>>

(* `return products` after the last link. *)
ScrapeReturn ==
    /\ scrape_pc = "loop"
    /\ link_index = Len(product_links)
    /\ scrape_pc' = "returned"
    /\ UNCHANGED <<listing, max_products, product_links, link_index, scraped, requests>>
    /\ UNCHANGED <<downloadVars, loadVars, csvVars, processVars>>

InitScrape ==
    /\ DownloadIdle
    /\ products = <<>>
    /\ LoadIdle
    /\ CsvIdle
    /\ ProcessIdle
    /\ listing \in UNION {[1..n -> Hrefs] : n \in 0..MaxLinks}
    /\ max_products \in 0..MaxLinks + 1
    /\ scrape_pc = "call"
    /\ product_links = <<>>
    /\ link_index = 0
    /\ scraped = <<>>
    /\ requests = <<>>

NextScrape ==
    \/ ScrapeCategory
    \/ ScrapeProduct
    \/ ScrapeReturn

SpecScrape == InitScrape /\ [][NextScrape]_vars

----------------------------------------------------------------------------
(* Vocabulary of the properties of download_product_images. *)

RECURSIVE TotalImages(_)
TotalImages(ps) ==
    IF ps = <<>> THEN 0 ELSE NImages(Head(ps)) + TotalImages(Tail(ps))

(* The position, in submission order, of the task of image n of record r. *)
TaskIndex(r, n) == TotalImages(SubSeq(products, 1, r - 1)) + n

Occurrences ==
    {rn \in (1..Len(products)) \X (1..MaxTasks) : rn[2] <= NImages(products[rn[1]])}

ImageUrl(rn) == products[rn[1]].image_urls[rn[2]]

RecordKey(r) == IF "product_id" \in DOMAIN products[r] THEN products[r].product_id
                ELSE "unknown"

Futures == 1..Len(future_to_url)

Settled(k) == future_to_url[k].state \in {"done", "collected"}

Succeeded(k) == Settled(k) /\ future_to_url[k].local_path # ""

(* The downloads of url under key that succeeded, among the first c futures. *)
Successes(key, url, c) ==
    {k \in 1..c : /\ future_to_url[k].task.product_id = key
                  /\ future_to_url[k].task.url = url
                  /\ Succeeded(k)}

Last(S) == CHOOSE k \in S : \A j \in S : j <= k

(* The path of the last submitted successful download of url under key. *)
LastSuccessPath(key, url, c) ==
    IF Successes(key, url, c) = {} THEN ""
    ELSE future_to_url[Last(Successes(key, url, c))].local_path

AllSettled ==
    /\ Len(future_to_url) = TotalImages(products)
    /\ \A k \in Futures : future_to_url[k].state = "collected"
    /\ cursor = Len(future_to_url)

Returned == dl_pc = "returned" /\ products # <<>>

(* C1: a failed download never aborts the batch: short of its return the   *)
(* call can always take a step, and at its return every URL of every       *)
(* record has been attempted and every URL with a successful download has  *)
(* a local path of a successful download of it recorded.                   *)
C1_FailureNeverAborts ==
    /\ dl_pc # "returned" => ENABLED NextDownload
    /\ Returned =>
          /\ AllSettled
          /\ \A k \in Futures : Succeeded(k) =>
                LET t == future_to_url[k].task
                IN  /\ t.product_id \in DOMAIN results
                    /\ t.url \in DOMAIN results[t.product_id]
                    /\ \E j \in Successes(t.product_id, t.url, Len(future_to_url)) :
                          results[t.product_id][t.url] = future_to_url[j].local_path

C1_Witness ==
    /\ Returned
    /\ \E j, k \in Futures :
          /\ j < k
          /\ future_to_url[j].task.url # ""
          /\ future_to_url[j].local_path = ""
          /\ Succeeded(k)
          /\ future_to_url[k].task.url \in DOMAIN results[future_to_url[k].task.product_id]

(* C2: after the return on a non-empty record sequence every record has a  *)
(* local_image_paths as long as its image_urls.                            *)
C2_EveryRecordHasPaths ==
    Returned =>
       \A r \in 1..Len(products) :
          /\ "local_image_paths" \in DOMAIN products[r]
          /\ Len(products[r].local_image_paths) = NImages(products[r])

(* C3, as claimed: local_image_paths[i] is the local path of the download  *)
(* of image_urls[i] itself: its path when it succeeded, "" when it failed  *)
(* or was skipped.                                                         *)
C3_PathOfOwnDownload ==
    Returned =>
       \A rn \in Occurrences :
          "local_image_paths" \in DOMAIN products[rn[1]] =>
             products[rn[1]].local_image_paths[rn[2]]
                = future_to_url[TaskIndex(rn[1], rn[2])].local_path

(* C3, amended: local_image_paths[i] is the path of the last submitted     *)
(* successful download of the URL image_urls[i] among all tasks with the   *)
(* record's product key, and "" when no download of that URL under that    *)
(* key succeeded; the sequence is as long as image_urls.                   *)
C3_PathOfLastSuccess ==
    Returned =>
       \A r \in 1..Len(products) :
          "local_image_paths" \in DOMAIN products[r] =>
             /\ Len(products[r].local_image_paths) = NImages(products[r])
             /\ \A n \in 1..NImages(products[r]) :
                   products[r].local_image_paths[n]
                      = LastSuccessPath(RecordKey(r), products[r].image_urls[n],
                                        Len(future_to_url))

C3_Witness ==
    /\ Returned
    /\ \E r \in 1..Len(products) :
          /\ "local_image_paths" \in DOMAIN products[r]
          /\ \E m, n \in 1..NImages(products[r]) :
                /\ m # n
                /\ products[r].image_urls[m] = products[r].image_urls[n]
                /\ Succeeded(TaskIndex(r, m))
                /\ ~Succeeded(TaskIndex(r, n))
                /\ products[r].local_image_paths[n] # ""

(* C4: the downloads in flight never outnumber max_workers, and every      *)
(* (record, URL index) pair is one future: the futures are, in order, the  *)
(* tasks (url, product key, index) of the images of the records.           *)
C4_BoundedPool ==
    /\ Cardinality(Running) <= max_workers
    /\ (dl_pc \in {"collect", "update", "returned"} /\ products # <<>>) =>
          /\ Len(future_to_url) = TotalImages(products)
          /\ \A rn \in Occurrences :
                future_to_url[TaskIndex(rn[1], rn[2])].task
                   = [url |-> ImageUrl(rn), product_id |-> RecordKey(rn[1]),
                      i |-> rn[2] - 1]

C4_Witness == Cardinality(Running) = max_workers /\ Pending # {}

(* C5: only a pass of the collecting loop changes the results mapping, one *)
(* future at a time and never in a step of a worker, and the path of every *)
(* collected successful download is in the mapping.                        *)
C5_SingleWriter ==
    /\ [][results' # results =>
             /\ dl_pc = "collect"
             /\ cursor' = cursor + 1
             /\ \A k \in Futures : future_to_url[k].state = "running"
                                        => future_to_url'[k].state = "running"]_vars
    /\ [](\A k \in 1..cursor : Succeeded(k) =>
             /\ future_to_url[k].task.product_id \in DOMAIN results
             /\ future_to_url[k].task.url
                   \in DOMAIN results[future_to_url[k].task.product_id])

C5_Witness ==
    /\ cursor >= 1
    /\ results # EmptyMap
    /\ \E j, k \in Futures :
          /\ j # k
          /\ future_to_url[j].state = "done" /\ future_to_url[j].local_path # ""
          /\ future_to_url[k].state = "done" /\ future_to_url[k].local_path # ""
          /\ future_to_url[j].task.product_id = future_to_url[k].task.product_id
          /\ future_to_url[j].task.product_id \in DOMAIN results

(* The results mapping the first c futures give, taken in submission order. *)
ExpectedResults(c) ==
    LET keys == {future_to_url[k].task.product_id : k \in {j \in 1..c : Succeeded(j)}}
    IN  [key \in keys |->
            [url \in {future_to_url[k].task.url :
                         k \in {j \in 1..c : /\ Succeeded(j)
                                             /\ future_to_url[j].task.product_id = key}}
                |-> LastSuccessPath(key, url, c)]]

(* C6: the results mapping and the local_image_paths are determined by the *)
(* tasks and their outcomes alone, whatever the order of completion.       *)
C6_OrderIndependent ==
    /\ dl_pc \in {"collect", "update", "returned"} => results = ExpectedResults(cursor)
    /\ Returned =>
          \A r \in 1..Len(products) :
             IF RecordKey(r) \in DOMAIN ExpectedResults(cursor)
             THEN /\ "local_image_paths" \in DOMAIN products[r]
                  /\ products[r].local_image_paths
                        = [n \in 1..NImages(products[r]) |->
                              LastSuccessPath(RecordKey(r), products[r].image_urls[n], cursor)]
             ELSE "local_image_paths" \notin DOMAIN products[r]

C6_Witness ==
    /\ dl_pc = "collect"
    /\ results # EmptyMap
    /\ \E j, k \in Futures :
          /\ j < k
          /\ future_to_url[j].state = "running"
          /\ future_to_url[k].state = "done" /\ future_to_url[k].local_path # ""
          /\ future_to_url[j].task.product_id = future_to_url[k].task.product_id
          /\ future_to_url[j].task.url = future_to_url[k].task.url
          /\ future_to_url[j].task.i # future_to_url[k].task.i

(* C7: every record without product_id is keyed under "unknown", and when  *)
(* two records with the same key list the same URL and a download of it    *)
(* succeeded, the one mapping entry holds the path of the last collected   *)
(* success and both records get that path for the URL.                     *)
C7_SharedKey ==
    (dl_pc \in {"collect", "update", "returned"} /\ products # <<>>) =>
       /\ \A rn \in Occurrences :
             "product_id" \notin DOMAIN products[rn[1]] =>
                future_to_url[TaskIndex(rn[1], rn[2])].task.product_id = "unknown"
       /\ Returned =>
             \A a, b \in Occurrences :
                (/\ a[1] # b[1]
                 /\ RecordKey(a[1]) = RecordKey(b[1])
                 /\ ImageUrl(a) = ImageUrl(b)
                 /\ Successes(RecordKey(a[1]), ImageUrl(a), cursor) # {}) =>
                   /\ results[RecordKey(a[1])][ImageUrl(a)]
                         = LastSuccessPath(RecordKey(a[1]), ImageUrl(a), cursor)
                   /\ products[a[1]].local_image_paths[a[2]]
                         = results[RecordKey(a[1])][ImageUrl(a)]
                   /\ products[b[1]].local_image_paths[b[2]]
                         = results[RecordKey(a[1])][ImageUrl(a)]

C7_Witness ==
    /\ Returned
    /\ \E a, b \in Occurrences :
          /\ a[1] < b[1]
          /\ "product_id" \notin DOMAIN products[a[1]]
          /\ "product_id" \notin DOMAIN products[b[1]]
          /\ ImageUrl(a) = ImageUrl(b)
          /\ Succeeded(TaskIndex(a[1], a[2]))
          /\ Succeeded(TaskIndex(b[1], b[2]))
          /\ future_to_url[TaskIndex(a[1], a[2])].local_path
                # future_to_url[TaskIndex(b[1], b[2])].local_path
          /\ products[a[1]].local_image_paths[a[2]]
                = future_to_url[TaskIndex(b[1], b[2])].local_path

(* The file a task writes to. *)
TargetFile(k) ==
    OutputPath(future_to_url[k].task.url, future_to_url[k].task.product_id,
               future_to_url[k].task.i)

(* C19: within one batch no two download tasks have the same output file,  *)
(* so that no two running downloads write one file and no downloaded file  *)
(* is overwritten by another task.                                         *)
C19_DistinctOutputFiles ==
    \A j, k \in Futures : j # k => TargetFile(j) # TargetFile(k)

----------------------------------------------------------------------------
(* Properties of load_json_files. *)

(* What one directory entry contributes to the result. *)
Contribution(file) ==
    IF ~file.json THEN <<>>
    ELSE CASE file.kind = "list" -> file.items
           [] file.kind = "dict" -> <<file.items[1]>>
           [] OTHER -> <<>>

RECURSIVE Concatenation(_)
Concatenation(files) ==
    IF files = <<>> THEN <<>>
    ELSE Contribution(Head(files)) \o Concatenation(Tail(files))

Malformed == {n \in 1..Len(folder.entries) :
                 folder.entries[n].json /\ folder.entries[n].kind = "invalid"}

JsonEntriesUpTo(n) == SelectSeq([k \in 1..n |-> k], LAMBDA k : folder.entries[k].json)

(* C8: on a directory whose .json files all parse, load_json_files returns *)
(* the concatenation, in enumeration order, of the elements of each array  *)
(* file and the one record of each single-object file; other top-level     *)
(* values and files without the .json extension contribute nothing.        *)
C8_Concatenation ==
    /\ (load_pc = "returned" =>
          /\ Malformed = {}
          /\ loaded = Concatenation(folder.entries))
    /\ (folder.exists /\ Malformed = {} =>
          /\ load_pc # "raised"
          /\ load_pc = "loop" =>
                all_products = Concatenation(SubSeq(folder.entries, 1, entry)))

C8_Witness ==
    /\ load_pc = "returned"
    /\ Len(loaded) = 3
    /\ \E a, b, c \in 1..Len(folder.entries) :
          /\ folder.entries[a].json /\ folder.entries[a].kind = "list"
          /\ Len(folder.entries[a].items) = 2
          /\ folder.entries[a].items[1] # folder.entries[a].items[2]
          /\ folder.entries[b].json /\ folder.entries[b].kind = "dict"
          /\ folder.entries[c].kind = "other" \/ ~folder.entries[c].json

(* C9: when a .json file does not parse, load_json_files raises at the     *)
(* first such file in enumeration order, returns nothing, and has opened   *)
(* the .json files up to that one and none after it.                       *)
C9_MalformedFileFailsLoad ==
    /\ (Malformed # {} => load_pc # "returned" /\ loaded = <<>>)
    /\ (load_pc = "raised" /\ folder.exists =>
          /\ Malformed # {}
          /\ load_error = "JSONDecodeError"
          /\ entry = CHOOSE n \in Malformed : \A m \in Malformed : n <= m
          /\ opened = JsonEntriesUpTo(entry)
          /\ loaded = <<>>)
    /\ (\A n \in 1..Len(opened) : opened[n] <= entry)

C9_Witness ==
    /\ load_pc = "raised"
    /\ load_error = "JSONDecodeError"
    /\ all_products # <<>>
    /\ entry < Len(folder.entries)
    /\ folder.entries[entry + 1].json
    /\ Len(opened) = 2

----------------------------------------------------------------------------
(* Properties of generate_csv. *)

(* C10: generate_csv on an empty record sequence raises ValueError and     *)
(* leaves the file at the output path as it was: it is neither created nor *)
(* modified, in that step or in any other.                                 *)
C10_EmptyInputRefused ==
    /\ [](products = <<>> /\ csv_pc # "call" =>
             csv_pc = "raised" /\ csv_error = "ValueError")
    /\ [][products = <<>> => output_file' = output_file]_vars
    /\ [](csv_error = "ValueError" => products = <<>>)

C10_Witness ==
    /\ products = <<>>
    /\ csv_pc = "raised"
    /\ csv_error = "ValueError"
    /\ output_file.parent
    /\ output_file.exists
    /\ output_file.header = <<"old">>

(* The columns of the header that are not among the fixed ones. *)
FixedFieldSet ==
    {StaticFields[n] : n \in 1..Len(StaticFields)} \cup PriceFieldSet
       \cup {"tags", "product_link"}

ImageColumnsOf(header) == SelectSeq(header, LAMBDA f : f \notin FixedFieldSet)

(* The largest number of image URLs a record of the batch has. *)
LargestImageCount ==
    CHOOSE n \in 0..MaxImages + 1 :
        /\ \A r \in 1..Len(products) : NImages(products[r]) <= n
        /\ n = 0 \/ \E r \in 1..Len(products) : NImages(products[r]) = n

(* C11: the written CSV has exactly the image columns image_1..image_N, N  *)
(* the largest number of image URLs of a record of the batch (none when N  *)
(* is 0); the row of a record with k images carries its image_urls in      *)
(* order in image_1..image_k and the empty string in the columns after.    *)
C11_ImageColumns ==
    csv_pc = "returned" =>
        /\ ImageColumnsOf(output_file.header) =
               [i \in 1..LargestImageCount |-> ImageField(i)]
        /\ Len(output_file.rows) = Len(products)
        /\ \A r \in 1..Len(products) :
              /\ DOMAIN output_file.rows[r] =
                     {output_file.header[n] : n \in 1..Len(output_file.header)}
              /\ \A i \in 1..LargestImageCount :
                    output_file.rows[r][ImageField(i)] =
                        IF i <= NImages(products[r])
                        THEN products[r].image_urls[i]
                        ELSE ""

C11_Witness ==
    /\ csv_pc = "returned"
    /\ Len(products) = 2
    /\ NImages(products[1]) = 1
    /\ NImages(products[2]) = 2
    /\ products[2].image_urls[1] # products[2].image_urls[2]
    /\ output_file.rows[1][ImageField(2)] = ""
    /\ output_file.rows[2][ImageField(2)] = products[2].image_urls[2]

(* C12: for a non-empty batch the written file is the header followed by   *)
(* one data row per record, the i-th row computed from the i-th record;    *)
(* the call fails only when the file cannot be opened.                     *)
C12_RowPerRecord ==
    /\ (csv_pc = "returned" =>
          /\ products # <<>>
          /\ output_file.exists
          /\ output_file.header = CsvFields(LargestImageCount)
          /\ Len(output_file.rows) = Len(products)
          /\ \A i \in 1..Len(products) :
                output_file.rows[i] = Row(products[i], LargestImageCount))
    /\ (products # <<>> /\ csv_pc = "raised" =>
          csv_error = "FileNotFoundError" /\ ~output_file.parent)

C12_Witness ==
    /\ csv_pc = "returned"
    /\ Len(products) = 2
    /\ Len(output_file.rows) = 2
    /\ output_file.rows[1] # output_file.rows[2]
    /\ output_file.rows[1]["brand"] = "Blue Dream"
    /\ output_file.rows[2]["brand"] = ""
    /\ output_file.rows[2]["THC_percent"] = "18%"

(* C13: the THC_percent cell of a record is the thc_potency of the first   *)
(* element of inventory_potencies followed by a percent sign, and the      *)
(* empty string when inventory_potencies is missing or empty or its first  *)
(* element has no thc_potency.                                             *)
C13_ThcPercent ==
    csv_pc = "returned" =>
        \A r \in 1..Len(products) :
            LET potencies == Get(products[r], "inventory_potencies", <<>>)
            IN  output_file.rows[r]["THC_percent"] =
                    IF potencies # <<>> /\ "thc_potency" \in DOMAIN potencies[1]
                    THEN ToString(potencies[1].thc_potency) \o "%"
                    ELSE ""

(* The fields of a record a column is computed from. *)
DependsOn(column) ==
    CASE column = "weight_options" -> {"available_weights"}
      [] column = "THC_percent" -> {"inventory_potencies"}
      [] column = "tags" -> {"brand_special_prices"}
      [] column = "product_link" -> {"product_id", "brand", "name"}
      [] column \in FixedFieldSet \ {"weight_options", "THC_percent", "tags",
                                     "product_link"} -> {column}
      [] OTHER -> {"image_urls"}

(* C14: generate_csv succeeds on records lacking any of the fields, and    *)
(* every cell computed from a field the record lacks is the empty string.  *)
C14_AbsentFieldsRenderEmpty ==
    /\ (products # <<>> /\ output_file.parent => csv_pc # "raised")
    /\ (csv_pc = "returned" =>
          \A r \in 1..Len(products) : \A n \in 1..Len(output_file.header) :
              LET column == output_file.header[n]
              IN  DependsOn(column) \ DOMAIN products[r] # {} =>
                      output_file.rows[r][column] = "")

----------------------------------------------------------------------------
(* Properties of process_products. *)

(* The image URLs have been replaced: download_product_images returned and *)
(* the loop of main.py:44-55 has run.                                      *)
Enriched == config.download_images /\ dl_pc = "returned" /\ main_pc # "download"

(* The records are the loaded ones but for image_urls and local_image_paths. *)
OnlyImagesChanged ==
    /\ Len(products) = Len(loaded)
    /\ \A r \in 1..Len(products) :
          /\ DOMAIN products[r] \ {"local_image_paths"} = DOMAIN loaded[r]
          /\ \A key \in DOMAIN loaded[r] \ {"image_urls"} : products[r][key] = loaded[r][key]
          /\ NImages(products[r]) = NImages(loaded[r])
          /\ "local_image_paths" \notin DOMAIN products[r] => products[r] = loaded[r]

(* C15, as claimed: after enrichment image_urls[i] is the local path of    *)
(* its own download when that download succeeded and the URL as loaded     *)
(* otherwise; the length of image_urls is unchanged and a record without   *)
(* local_image_paths is as loaded.                                         *)
C15_ReplacedByOwnDownload ==
    Enriched =>
        /\ OnlyImagesChanged
        /\ \A rn \in Occurrences :
              products[rn[1]].image_urls[rn[2]] =
                  IF Succeeded(TaskIndex(rn[1], rn[2]))
                  THEN future_to_url[TaskIndex(rn[1], rn[2])].local_path
                  ELSE loaded[rn[1]].image_urls[rn[2]]

(* C15, amended: after enrichment image_urls[i] is the path of the last    *)
(* submitted successful download of that URL among all tasks with the      *)
(* record's product key, and the URL as loaded when no download of it      *)
(* under that key succeeded; the length of image_urls is unchanged and a   *)
(* record without local_image_paths is as loaded.                          *)
C15_ReplacedByRecordedPath ==
    Enriched =>
        /\ OnlyImagesChanged
        /\ \A rn \in Occurrences :
              LET url == loaded[rn[1]].image_urls[rn[2]]
                  path == LastSuccessPath(RecordKey(rn[1]), url, Len(future_to_url))
              IN  products[rn[1]].image_urls[rn[2]] = IF path # "" THEN path ELSE url

C15_Witness ==
    /\ Enriched
    /\ \E r \in 1..Len(products) :
          /\ NImages(products[r]) = 2
          /\ loaded[r].image_urls[1] = loaded[r].image_urls[2]
          /\ Succeeded(TaskIndex(r, 1))
          /\ ~Succeeded(TaskIndex(r, 2))
          /\ products[r].image_urls[2] = future_to_url[TaskIndex(r, 1)].local_path
          /\ products[r].image_urls[2] # loaded[r].image_urls[2]

(* A stage of the pipeline has failed. *)
StageFailed == load_pc = "raised" \/ dl_pc = "raised" \/ csv_pc = "raised"

(* C16: the file at the output path changes only in the write of           *)
(* generate_csv, after load_json_files has returned, after every download  *)
(* task has settled when the download is enabled, and after a row has been *)
(* computed for every record; when a stage fails the file is as it was     *)
(* before the call, and when process_products returns it holds the rows.   *)
C16_StagedAllOrNothing ==
    /\ [][output_file' # output_file =>
             /\ main_pc = "csv" /\ csv_pc = "write"
             /\ load_pc = "returned"
             /\ entry = Len(folder.entries)
             /\ config.download_images =>
                   /\ dl_pc = "returned"
                   /\ Len(future_to_url) = TotalImages(products)
                   /\ \A k \in Futures : future_to_url[k].state = "collected"
             /\ ~config.download_images => dl_pc = "idle"
             /\ Len(csv_rows) = Len(products)
             /\ output_file'.rows = csv_rows]_vars
    /\ [](StageFailed \/ main_pc = "raised" => output_file \in OutputFiles)
    /\ [](main_pc = "returned" =>
             /\ ~StageFailed
             /\ output_file.exists
             /\ output_file.header = csv_fields
             /\ Len(output_file.rows) = Len(products))

C16_Witness ==
    /\ main_pc = "returned"
    /\ config.download_images
    /\ Len(future_to_url) >= 2
    /\ \E j, k \in Futures : Succeeded(j) /\ ~Succeeded(k)
    /\ Len(output_file.rows) = 2
    /\ Len(folder.entries) = 2

----------------------------------------------------------------------------
(* Properties of ProductScraper.scrape_products. *)

(* The requests for the category page. *)
CategoryRequests == {i \in 1..Len(requests) : requests[i].url = category_url}

(* C17: scrape_products requests the category page exactly once, before    *)
(* any other page; when that request fails it returns the empty list and   *)
(* no product page is ever requested.                                      *)
C17_CategoryFetchedOnce ==
    /\ scrape_pc = "call" => requests = <<>>
    /\ scrape_pc # "call" => CategoryRequests = {1}
    /\ (requests # <<>> /\ ~requests[1].ok) =>
          /\ scrape_pc = "returned"
          /\ scraped = <<>>
          /\ Len(requests) = 1

C17_Witness ==
    /\ scrape_pc = "returned"
    /\ ~requests[1].ok
    /\ max_products >= 2
    /\ Len(extract_product_links(listing)) >= 2

(* The links that are to be fetched: the first max_products of the hrefs   *)
(* of the category page that are not empty, made absolute.                 *)
LinksToFetch ==
    LET hrefs == SelectSeq(listing, LAMBDA href : href # "")
        count == IF max_products < Len(hrefs) THEN max_products ELSE Len(hrefs)
    IN  [i \in 1..count |-> "site" \o hrefs[i]]

(* The products the answered requests give, in request order. *)
RECURSIVE ProductsOf(_)
ProductsOf(reqs) ==
    IF reqs = <<>> THEN <<>>
    ELSE LET last == reqs[Len(reqs)]
             before == ProductsOf(SubSeq(reqs, 1, Len(reqs) - 1))
         IN  IF last.ok /\ last.data # EmptyMap
             THEN Append(before, [field \in DOMAIN last.data \cup {"product_url"} |->
                                     IF field = "product_url" THEN last.url
                                     ELSE last.data[field]])
             ELSE before

(* C18: after the category page, the first max_products links are          *)
(* requested one at a time in link order, each once; a product page that   *)
(* cannot be fetched is skipped and every later link is still requested;   *)
(* the products are in link order, each with the link it came from as its  *)
(* product_url.                                                            *)
C18_SequentialScrape ==
    (requests # <<>> /\ requests[1].ok) =>
        /\ Len(requests) = 1 + link_index
        /\ link_index <= Len(LinksToFetch)
        /\ \A i \in 1..link_index : requests[i + 1].url = LinksToFetch[i]
        /\ scrape_pc = "returned" => link_index = Len(LinksToFetch)
        /\ scrape_pc # "returned" => ENABLED NextScrape
        /\ scraped = ProductsOf(Tail(requests))

C18_Witness ==
    /\ scrape_pc = "returned"
    /\ Len(extract_product_links(listing)) = 3
    /\ max_products = 2
    /\ Len(requests) = 3
    /\ requests[1].ok
    /\ ~requests[2].ok
    /\ requests[3].ok
    /\ Len(scraped) = 1
    /\ scraped[1]["product_url"] = requests[3].url
    /\ requests[3].data["product_url"] = "own"

====
